---- MODULE Spec2Model ----
(***************************************************************************)
(* Verification model of voronoice's src/utils.rs: the half-edge index     *)
(* helpers, the Voronoi-edge -> Delaunay-edge lookup, the cell adjacency   *)
(* query, the circumcenter kernel and the point-in-polygon part of the     *)
(* validation helper.                                                      *)
(***************************************************************************)
EXTENDS Integers, Sequences, FiniteSets

VARIABLES triangulation, voronoi, call

vars == <<triangulation, voronoi, call>>

(***************************************************************************)
(* Bounds of the model.                                                    *)
(***************************************************************************)
\* width (in bits) of the index type usize, scaled down
IndexBits == 4
\* largest number of triangles of an enumerated triangulation
MaxTriangles == 3

UsizeModulus == 2 ^ IndexBits
UsizeMax == UsizeModulus - 1

\* delaunator::EMPTY is usize::MAX
EMPTY == UsizeMax

NoCall == [op |-> "none"]
\* a diagram without cells, for the queries that read no diagram
NoVoronoi == [cells |-> <<>>]

(***************************************************************************)
(* Half-edge index arithmetic.                                             *)
(***************************************************************************)
triangle_of_edge_mod(edge) == edge % 3

triangle_of_edge(edge) == edge \div 3

\* delaunator::next_halfedge: if e % 3 == 2 { e - 2 } else { e + 1 }
next_halfedge(e) == IF e % 3 = 2 THEN e - 2 ELSE e + 1

\* the site a half-edge starts from, taken for the site it points to
site_of_incoming_origin(t, e) == t.triangles[e]

site_of_incoming(t, e) == t.triangles[next_halfedge(e)]

(***************************************************************************)
(* The triangulations handed over by the triangulation provider: arrays    *)
(* triangles[] and halfedges[] indexed from 0, of length 3 * numTriangles. *)
(* They are enumerated by growing a triangulated disc one triangle at a    *)
(* time, the new triangle being stored under each of its three rotations.  *)
(***************************************************************************)
ArrayLen(arr) == Cardinality(DOMAIN arr)

NumTriangles(t) == ArrayLen(t.triangles) \div 3

Edges(t) == DOMAIN t.halfedges

NumSites(t) == Cardinality({t.triangles[e] : e \in Edges(t)})

HullEdges(t) == {e \in Edges(t) : t.halfedges[e] = EMPTY}

Connected(t, u, w) ==
    \E e \in Edges(t) :
        {t.triangles[e], t.triangles[next_halfedge(e)]} = {u, w}

SingleTriangle ==
    [triangles |-> [e \in 0..2 |-> e], halfedges |-> [e \in 0..2 |-> EMPTY]]

\* a new triangle over hull edge e with a new site as its apex
Extend(t, e, rot) ==
    LET base == ArrayLen(t.triangles)
        k1 == base + rot
        k2 == next_halfedge(k1)
        k3 == next_halfedge(k2)
    IN  [triangles |->
            [x \in 0..(base + 2) |->
                IF x < base THEN t.triangles[x]
                ELSE IF x = k1 THEN t.triangles[next_halfedge(e)]
                ELSE IF x = k2 THEN t.triangles[e]
                ELSE NumSites(t)],
         halfedges |->
            [x \in 0..(base + 2) |->
                IF x = e THEN k1
                ELSE IF x = k1 THEN e
                ELSE IF x < base THEN t.halfedges[x]
                ELSE EMPTY]]

\* a new triangle in the notch between two consecutive hull edges
\* e1 (u -> v) and e2 (v -> w)
Fill(t, e1, e2, rot) ==
    LET base == ArrayLen(t.triangles)
        k1 == base + rot
        k2 == next_halfedge(k1)
        k3 == next_halfedge(k2)
    IN  [triangles |->
            [x \in 0..(base + 2) |->
                IF x < base THEN t.triangles[x]
                ELSE IF x = k1 THEN t.triangles[next_halfedge(e2)]
                ELSE IF x = k2 THEN t.triangles[e2]
                ELSE t.triangles[e1]],
         halfedges |->
            [x \in 0..(base + 2) |->
                IF x = e2 THEN k1
                ELSE IF x = k1 THEN e2
                ELSE IF x = e1 THEN k2
                ELSE IF x = k2 THEN e1
                ELSE IF x < base THEN t.halfedges[x]
                ELSE EMPTY]]

Grow(t) ==
    {Extend(t, e, rot) : e \in HullEdges(t), rot \in 0..2}
    \cup
    {Fill(t, p[1], p[2], rot) :
        p \in {q \in HullEdges(t) \X HullEdges(t) :
                  /\ t.triangles[next_halfedge(q[1])] = t.triangles[q[2]]
                  /\ t.triangles[q[1]] # t.triangles[next_halfedge(q[2])]
                  /\ ~Connected(t, t.triangles[q[1]],
                                t.triangles[next_halfedge(q[2])])},
        rot \in 0..2}

RECURSIVE TriangulationsOfSize(_)
TriangulationsOfSize(n) ==
    IF n = 1 THEN {SingleTriangle}
    ELSE UNION {Grow(t) : t \in TriangulationsOfSize(n - 1)}

Triangulations == UNION {TriangulationsOfSize(n) : n \in 1..MaxTriangles}

(***************************************************************************)
(* delaunay_edge_from_voronoi_edge.                                        *)
(***************************************************************************)
Panic == [panic |-> TRUE, value |-> EMPTY, reads |-> 0]

NoPanic(value, reads) == [panic |-> FALSE, value |-> value, reads |-> reads]

\* the loops with the advance of ta at the end of the outer loop left out
RECURSIVE FindCommonEdgeNoAdvance(_, _, _, _, _, _)
FindCommonEdgeNoAdvance(t, ta, tb, i, j, reads) ==
    IF i = 3 THEN NoPanic(EMPTY, reads)
    ELSE IF j = 3
        THEN FindCommonEdgeNoAdvance(t, ta, tb, i + 1, 0, reads)
    ELSE IF tb \notin DOMAIN t.halfedges
        THEN [panic |-> TRUE, value |-> EMPTY, reads |-> reads]
    ELSE IF ta = t.halfedges[tb]
        THEN NoPanic(ta, reads + 1)
    ELSE FindCommonEdgeNoAdvance(t, ta, next_halfedge(tb), i, j + 1, reads + 1)

\* the two nested `for _ in 0..3` loops; i and j count the finished
\* iterations of the outer and of the inner loop, reads the halfedges[]
\* reads (one per comparison) made so far
RECURSIVE FindCommonEdge(_, _, _, _, _, _)
FindCommonEdge(t, ta, tb, i, j, reads) ==
    IF i = 3 THEN NoPanic(EMPTY, reads)
    ELSE IF j = 3
        THEN FindCommonEdge(t, next_halfedge(ta), tb, i + 1, 0, reads)
    ELSE IF tb \notin DOMAIN t.halfedges
        THEN [panic |-> TRUE, value |-> EMPTY, reads |-> reads]
    ELSE IF ta = t.halfedges[tb]
        THEN NoPanic(ta, reads + 1)
    ELSE FindCommonEdge(t, ta, next_halfedge(tb), i, j + 1, reads + 1)

\* `a * 3` on usize: a panic under overflow checks, a wrap without them
Times3Overflows(a) == a * 3 > UsizeMax

delaunay_edge_from_voronoi_edge(t, a, b, overflow_checks) ==
    LET ta == (a * 3) % UsizeModulus
        tb == (b * 3) % UsizeModulus
    IN  IF overflow_checks /\ (Times3Overflows(a) \/ Times3Overflows(b))
            THEN Panic
        ELSE IF ta < ArrayLen(t.triangles) /\ tb < ArrayLen(t.triangles)
            THEN FindCommonEdge(t, ta, tb, 0, 0, 0)
        ELSE NoPanic(EMPTY, 0)

(***************************************************************************)
(* Specification of the triangulation queries.                             *)
(***************************************************************************)
\* the triangle indices a caller passes: the triangles, the first indices
\* past them, the indices whose tripling wraps, and usize::MAX
TriangleArgs(t) ==
    {a \in 0..UsizeMax :
        \/ a <= NumTriangles(t) + 1
        \/ a = UsizeMax
        \/ (a * 3) % UsizeModulus < ArrayLen(t.triangles)}

\* the build profiles that behave differently on the call: overflow checks
\* matter only when a multiplication overflows
BuildProfiles(a, b) ==
    IF Times3Overflows(a) \/ Times3Overflows(b) THEN BOOLEAN ELSE {FALSE}

InitT ==
    /\ triangulation \in Triangulations
    /\ voronoi = NoVoronoi
    /\ call = NoCall

CallTriangleOfEdge ==
    /\ call = NoCall
    /\ \E e \in Edges(triangulation) :
          call' = [op |-> "triangle_of_edge", e |-> e,
                   result |-> triangle_of_edge(e)]
    /\ UNCHANGED <<triangulation, voronoi>>

\* a walk along next_halfedge, starting at any half-edge
StartWalk ==
    /\ call = NoCall
    /\ \E e \in Edges(triangulation) :
          call' = [op |-> "next_halfedge", start |-> e, steps |-> 0, e |-> e]
    /\ UNCHANGED <<triangulation, voronoi>>

CallNextHalfedge ==
    /\ call.op = "next_halfedge"
    /\ call.steps < 3
    /\ call' = [call EXCEPT !.steps = @ + 1, !.e = next_halfedge(@)]
    /\ UNCHANGED <<triangulation, voronoi>>

CallSiteOfIncoming ==
    /\ call = NoCall
    /\ \E e \in Edges(triangulation) :
          call' = [op |-> "site_of_incoming", e |-> e,
                   result |-> site_of_incoming(triangulation, e)]
    /\ UNCHANGED <<triangulation, voronoi>>

CallDelaunayEdge ==
    /\ call = NoCall
    /\ \E a \in TriangleArgs(triangulation), b \in TriangleArgs(triangulation) :
          \E overflow_checks \in BuildProfiles(a, b) :
              call' = [op |-> "delaunay_edge_from_voronoi_edge",
                       a |-> a, b |-> b,
                       overflow_checks |-> overflow_checks,
                       result |-> delaunay_edge_from_voronoi_edge(
                                      triangulation, a, b, overflow_checks)]
    /\ UNCHANGED <<triangulation, voronoi>>

\* the caller takes the result; the next query may start
Return ==
    /\ call # NoCall
    /\ call.op = "next_halfedge" => call.steps = 3
    /\ call' = NoCall
    /\ UNCHANGED <<triangulation, voronoi>>

NextT ==
    \/ CallTriangleOfEdge
    \/ StartWalk
    \/ CallNextHalfedge
    \/ CallSiteOfIncoming
    \/ CallDelaunayEdge
    \/ Return

SpecT == InitT /\ [][NextT]_vars

\* the triangulation provider's guarantees: twins are mutual and lie in
\* another triangle, a half-edge and its twin join the same two sites in
\* opposite directions, a triangle has three distinct sites, and two
\* triangles share at most one edge
ValidTriangulation ==
    LET t == triangulation IN
    /\ ArrayLen(t.triangles) = ArrayLen(t.halfedges)
    /\ ArrayLen(t.triangles) = 3 * NumTriangles(t)
    /\ ArrayLen(t.triangles) < EMPTY
    /\ \A e \in Edges(t) :
          /\ t.triangles[e] # t.triangles[next_halfedge(e)]
          /\ t.halfedges[e] # EMPTY =>
                /\ t.halfedges[e] \in Edges(t)
                /\ t.halfedges[t.halfedges[e]] = e
                /\ triangle_of_edge(t.halfedges[e]) # triangle_of_edge(e)
                /\ t.triangles[t.halfedges[e]] = t.triangles[next_halfedge(e)]
                /\ t.triangles[next_halfedge(t.halfedges[e])] = t.triangles[e]
    /\ \A e, f \in Edges(t) :
          /\ e # f
          /\ t.halfedges[e] # EMPTY
          /\ t.halfedges[f] # EMPTY
          /\ triangle_of_edge(e) = triangle_of_edge(f)
          => triangle_of_edge(t.halfedges[e]) # triangle_of_edge(t.halfedges[f])

(***************************************************************************)
(* has_common_voronoi_edge.  A diagram holds its cells under the site      *)
(* indices 0 .. n-1; a cell lists the indices of its incident triangles,   *)
(* each index once.                                                        *)
(***************************************************************************)
\* largest triangle index in a cell
MaxTriangleIndex == 3
\* largest number of triangles in a cell
MaxCellLen == 3

IsInjective(seq) ==
    \A i, j \in 1..Len(seq) : seq[i] = seq[j] => i = j

TriangleLists ==
    UNION {{seq \in [1..n -> 0..MaxTriangleIndex] : IsInjective(seq)} :
              n \in 0..MaxCellLen}

\* the diagrams of two cells
Diagrams ==
    {[cells |-> [i \in {0, 1} |-> [triangles |-> p[i + 1]]]] :
        p \in TriangleLists \X TriangleLists}

\* voronoi.cell(site).triangles(): the list cells[site], a panic when site
\* is not an index of cells
HasCell(v, site) == site \in DOMAIN v.cells

Verdict(value) == [panic |-> FALSE, value |-> value]

VerdictPanic == [panic |-> TRUE, value |-> FALSE]

\* the comparison ta == tb written as ta <= tb
has_common_voronoi_edge_le(v, a, b) ==
    IF ~HasCell(v, a) THEN VerdictPanic
    ELSE LET ta == v.cells[a].triangles IN
        IF Len(ta) = 0 THEN Verdict(FALSE)
        ELSE IF ~HasCell(v, b) THEN VerdictPanic
        ELSE LET tb == v.cells[b].triangles
                 common == Cardinality(
                     {i \in 1..Len(ta) : \E j \in 1..Len(tb) : ta[i] <= tb[j]})
             IN  Verdict(common >= 2)

\* the threshold common >= 2 written as common >= 1
has_common_voronoi_edge_one(v, a, b) ==
    IF ~HasCell(v, a) THEN VerdictPanic
    ELSE LET ta == v.cells[a].triangles IN
        IF Len(ta) = 0 THEN Verdict(FALSE)
        ELSE IF ~HasCell(v, b) THEN VerdictPanic
        ELSE LET tb == v.cells[b].triangles
                 common == Cardinality(
                     {i \in 1..Len(ta) : \E j \in 1..Len(tb) : ta[i] = tb[j]})
             IN  Verdict(common >= 1)

\* common counts the positions of cell a's list whose triangle occurs in
\* cell b's list (the inner loop stops at the first match); cell b is read
\* in the body of the outer loop only
has_common_voronoi_edge(v, a, b) ==
    IF ~HasCell(v, a) THEN VerdictPanic
    ELSE LET ta == v.cells[a].triangles IN
        IF Len(ta) = 0 THEN Verdict(FALSE)
        ELSE IF ~HasCell(v, b) THEN VerdictPanic
        ELSE LET tb == v.cells[b].triangles
                 common == Cardinality(
                     {i \in 1..Len(ta) : \E j \in 1..Len(tb) : ta[i] = tb[j]})
             IN  Verdict(common >= 2)

InitV ==
    /\ triangulation = SingleTriangle
    /\ voronoi \in Diagrams
    /\ call = NoCall

\* the site indices a caller passes: the sites and the first index past them
SiteArgs(v) == 0..Cardinality(DOMAIN v.cells)

CallHasCommonVoronoiEdge ==
    /\ call = NoCall
    /\ \E a \in SiteArgs(voronoi), b \in SiteArgs(voronoi) :
          call' = [op |-> "has_common_voronoi_edge", a |-> a, b |-> b,
                   result |-> has_common_voronoi_edge(voronoi, a, b)]
    /\ UNCHANGED <<triangulation, voronoi>>

NextV ==
    \/ CallHasCommonVoronoiEdge
    \/ Return

SpecV == InitV /\ [][NextV]_vars

(***************************************************************************)
(* The geometric kernel.  Points have integer coordinates 0 .. GridMax.    *)
(* An f64 is modelled by its class: a finite value (the exact quotient     *)
(* num / den, the rounding left out), an infinity, or a NaN.               *)
(***************************************************************************)
\* largest coordinate of a point
GridMax == 2

Coordinates == 0..GridMax

Points == [x : Coordinates, y : Coordinates]

Finite(num, den) == [class |-> "finite", num |-> num, den |-> den]

Infinite == [class |-> "infinite", num |-> 0, den |-> 0]

NaN == [class |-> "nan", num |-> 0, den |-> 0]

\* 1.0 / x for a finite x = num / 1: an infinity when x is zero
Reciprocal(num) == IF num = 0 THEN Infinite ELSE Finite(1, num)

\* d * n for an integer n: infinity * 0 is NaN
Times(d, n) ==
    IF d.class = "finite" THEN Finite(d.num * n, d.den)
    ELSE IF d.class = "infinite" /\ n # 0 THEN Infinite
    ELSE NaN

\* n + v for an integer n
Plus(n, v) ==
    IF v.class = "finite" THEN Finite(n * v.den + v.num, v.den) ELSE v

cicumcenter(a, b, c) ==
    LET b_x == b.x - a.x
        b_y == b.y - a.y
        c_x == c.x - a.x
        c_y == c.y - a.y
        bb == b_x * b_x + b_y * b_y
        cc == c_x * c_x + c_y * c_y
        d == Reciprocal(2 * (b_x * c_y - b_y * c_x))
    IN  [x |-> Plus(a.x, Times(d, c_y * bb - b_y * cc)),
         y |-> Plus(a.y, Times(d, b_x * cc - c_x * bb))]

InitK ==
    /\ triangulation = SingleTriangle
    /\ voronoi = NoVoronoi
    /\ call = NoCall

CallCicumcenter ==
    /\ call = NoCall
    /\ \E a \in Points, b \in Points, c \in Points :
          call' = [op |-> "cicumcenter", a |-> a, b |-> b, c |-> c,
                   result |-> cicumcenter(a, b, c)]
    /\ UNCHANGED <<triangulation, voronoi>>

NextK ==
    \/ CallCicumcenter
    \/ Return

SpecK == InitK /\ [][NextK]_vars

(***************************************************************************)
(* validate_voronoi.  The boundary is the box [0, GridMax] x [0, GridMax]. *)
(* A diagram is the box as one cell, or the box cut in two cells along a   *)
(* chord between two points of its perimeter; a cell's vertices are stored *)
(* in the order the validation asks for or in the opposite order, and a    *)
(* cell's site is any point.                                               *)
(***************************************************************************)
PerimeterLen == 4 * GridMax

\* the k-th point of the box's perimeter, from the origin up the left side,
\* along the top, down the right side and back along the bottom
PerimeterPoint(k) ==
    IF k < GridMax THEN [x |-> 0, y |-> k]
    ELSE IF k < 2 * GridMax THEN [x |-> k - GridMax, y |-> GridMax]
    ELSE IF k < 3 * GridMax THEN [x |-> GridMax, y |-> 3 * GridMax - k]
    ELSE [x |-> 4 * GridMax - k, y |-> 0]

IsCorner(k) == k % GridMax = 0

\* BoundingBox::vertices()
BoundaryVertices == {PerimeterPoint(k) : k \in {j \in 0..(PerimeterLen - 1) : IsCorner(j)}}

\* BoundingBox::is_inside(point)
BoundaryIsInside(point) ==
    /\ 0 <= point.x /\ point.x <= GridMax
    /\ 0 <= point.y /\ point.y <= GridMax

\* the part of the box between perimeter points p and q: p, the corners
\* after p and before q, and q
CellAlong(p, q) ==
    LET span == (q - p) % PerimeterLen
        between == SelectSeq([i \in 1..(span - 1) |-> (p + i) % PerimeterLen],
                             IsCorner)
    IN  [i \in 1..(Len(between) + 2) |->
            IF i = 1 THEN PerimeterPoint(p)
            ELSE IF i = Len(between) + 2 THEN PerimeterPoint(q)
            ELSE PerimeterPoint(between[i - 1])]

Reverse(seq) == [i \in 1..Len(seq) |-> seq[Len(seq) + 1 - i]]

Stored(vertices, reversed) == IF reversed THEN Reverse(vertices) ELSE vertices

PolygonCell(vertices, site_position) ==
    [vertices |-> vertices, site_position |-> site_position]

\* the vertices moved dx to the right
Shifted(vertices, dx) ==
    [i \in 1..Len(vertices) |-> [x |-> vertices[i].x + dx, y |-> vertices[i].y]]

\* the box as one cell, in place or moved one unit out of the boundary
WholeBoxDiagrams ==
    {[cells |-> [i \in {0} |->
                    PolygonCell(
                        Shifted(Stored(CellAlong(p, (p + PerimeterLen - GridMax)
                                                       % PerimeterLen), r), dx),
                        s)]] :
        p \in {k \in 0..(PerimeterLen - 1) : IsCorner(k)},
        r \in BOOLEAN, dx \in {0, 1}, s \in Points}

Chords ==
    {c \in (0..(PerimeterLen - 1)) \X (0..(PerimeterLen - 1)) :
        /\ c[1] # c[2]
        /\ Len(CellAlong(c[1], c[2])) >= 3
        /\ Len(CellAlong(c[2], c[1])) >= 3}

CutBoxDiagrams ==
    {[cells |-> [i \in {0, 1} |->
                    IF i = 0
                    THEN PolygonCell(Stored(CellAlong(c[1], c[2]), r[1]), s[1])
                    ELSE PolygonCell(Stored(CellAlong(c[2], c[1]), r[2]), s[2])]] :
        c \in Chords, r \in BOOLEAN \X BOOLEAN, s \in Points \X Points}

\* one cell of a cut box, the other cell missing
HalfBoxDiagrams ==
    {[cells |-> [i \in {0} |-> PolygonCell(CellAlong(c[1], c[2]), s)]] :
        c \in Chords, s \in Points}

\* vertices[i] and the vertex after it, cyclically:
\* vertices.iter().zip(vertices.iter().cycle().skip(1))
EdgeFrom(vertices, i) == vertices[i]

EdgeTo(vertices, i) == vertices[(i % Len(vertices)) + 1]

RECURSIVE AreaSum(_, _)
AreaSum(vertices, i) ==
    IF i = 0 THEN 0
    ELSE AreaSum(vertices, i - 1)
         + (EdgeTo(vertices, i).x - EdgeFrom(vertices, i).x)
           * (EdgeTo(vertices, i).y + EdgeFrom(vertices, i).y)

calculate_area(vertices) == AreaSum(vertices, Len(vertices))

\* robust::orient2d(pa, pb, pc): positive when pc is on the left of the
\* line from pa to pb (y axis upwards), zero when on it
orient2d(pa, pb, pc) ==
    (pa.x - pc.x) * (pb.y - pc.y) - (pa.y - pc.y) * (pb.x - pc.x)

\* the hull of the re-triangulated vertices holds every vertex: each vertex
\* is the start of a hull edge with all other vertices strictly beside it
is_convex(vertices) ==
    \A i \in 1..Len(vertices) :
        \E j \in 1..Len(vertices) :
            /\ j # i
            /\ \A k \in 1..Len(vertices) :
                  k # i /\ k # j
                  => orient2d(vertices[i], vertices[j], vertices[k]) < 0

\* the test orient2d(..) > 0. written as >= 0.
is_point_inside_strict(vertices, inside) ==
    \A i \in 1..Len(vertices) :
        ~(orient2d(EdgeFrom(vertices, i), EdgeTo(vertices, i), inside) >= 0)

is_point_inside(vertices, inside) ==
    \A i \in 1..Len(vertices) :
        ~(orient2d(EdgeFrom(vertices, i), EdgeTo(vertices, i), inside) > 0)

\* the checks of one cell in the loop over the cells, the first that fails
CellCheck(cell) ==
    IF calculate_area(cell.vertices) <= 0 THEN "not counter-clockwise"
    ELSE IF \E i \in 1..Len(cell.vertices) : ~BoundaryIsInside(cell.vertices[i])
        THEN "vertex outside boundary"
    ELSE IF ~is_convex(cell.vertices) THEN "not convex"
    ELSE IF ~is_point_inside(cell.vertices, cell.site_position)
        THEN "site outside cell"
    ELSE "ok"

\* "ok" when validate_voronoi returns, the message of its panic otherwise:
\* the first failing check of the first failing cell, then the corners
validate_voronoi(v) ==
    LET failing == {i \in DOMAIN v.cells : CellCheck(v.cells[i]) # "ok"}
        first == CHOOSE i \in failing : \A j \in failing : i <= j
    IN  IF failing # {} THEN CellCheck(v.cells[first])
        ELSE IF \E corner \in BoundaryVertices :
                   \A i \in DOMAIN v.cells :
                       ~is_point_inside(v.cells[i].vertices, corner)
            THEN "corner not inside any cell"
        ELSE "ok"

InitG ==
    /\ triangulation = SingleTriangle
    /\ voronoi \in WholeBoxDiagrams \cup HalfBoxDiagrams \cup CutBoxDiagrams
    /\ call = NoCall

CallValidateVoronoi ==
    /\ call = NoCall
    /\ call' = [op |-> "validate_voronoi", result |-> validate_voronoi(voronoi)]
    /\ UNCHANGED <<triangulation, voronoi>>

NextG ==
    \/ CallValidateVoronoi
    \/ Return

SpecG == InitG /\ [][NextG]_vars

(***************************************************************************)
(* Properties of the triangulation queries.                                *)
(***************************************************************************)
IsDelaunayCall == call.op = "delaunay_edge_from_voronoi_edge"

InRange(a) == a < NumTriangles(triangulation)

\* the half-edges of triangle a whose twin is a half-edge of triangle b
SharedEdges(t, a, b) ==
    {e \in Edges(t) :
        /\ triangle_of_edge(e) = a
        /\ t.halfedges[e] # EMPTY
        /\ triangle_of_edge(t.halfedges[e]) = b}

\* C1: whenever a or b is not a triangle of the triangulation, also when
\* a * 3 or b * 3 does not fit in usize, delaunay_edge_from_voronoi_edge
\* returns EMPTY without a failure and without reading halfedges[].
C1_OutOfRangeIsEmpty ==
    IsDelaunayCall /\ (~InRange(call.a) \/ ~InRange(call.b))
    => /\ ~call.result.panic
       /\ call.result.value = EMPTY
       /\ call.result.reads = 0

\* C4: for two triangles a and b of a valid triangulation, the result is a
\* half-edge of a whose twin is a half-edge of b whenever there is one;
\* otherwise it is EMPTY, after all nine comparisons; never more than nine
\* comparisons are made.
C4_FindsSharedEdge ==
    IsDelaunayCall /\ InRange(call.a) /\ InRange(call.b)
    => LET r == call.result
           shared == SharedEdges(triangulation, call.a, call.b)
       IN  /\ ~r.panic
           /\ r.reads <= 9
           /\ shared # {} => r.value \in shared
           /\ shared = {} => r.value = EMPTY /\ r.reads = 9

\* a shared edge found by the ninth comparison
C4_Witness ==
    /\ IsDelaunayCall /\ InRange(call.a) /\ InRange(call.b)
    /\ call.result.value # EMPTY
    /\ call.result.reads = 9

\* C5: along a walk by next_halfedge every half-edge is in the triangle of
\* the first one, the third step is back on the first half-edge, and
\* triangle_of_edge(e) is e / 3 rounded down.
C5_NextHalfedgeCycle ==
    /\ call.op = "next_halfedge" =>
          /\ triangle_of_edge(call.e) = triangle_of_edge(call.start)
          /\ call.steps = 3 => call.e = call.start
          /\ call.steps \in 1..2 => call.e # call.start
    /\ call.op = "triangle_of_edge" =>
          /\ 3 * call.result <= call.e
          /\ call.e < 3 * call.result + 3

\* a walk that started on the last half-edge of a triangle and is back on it
C5_Witness ==
    /\ call.op = "next_halfedge"
    /\ call.steps = 3
    /\ call.start % 3 = 2
    /\ call.e = call.start

\* C9: site_of_incoming(e) is triangles[next_halfedge(e)], is not the
\* origin site triangles[e], and is the origin site of the twin of e when
\* e has a twin.
C9_SiteOfIncoming ==
    call.op = "site_of_incoming"
    => LET t == triangulation
           e == call.e
       IN  /\ call.result = t.triangles[next_halfedge(e)]
           /\ call.result # t.triangles[e]
           /\ t.halfedges[e] # EMPTY
              => call.result = t.triangles[t.halfedges[e]]

\* site_of_incoming of a half-edge that has a twin
C9_Witness ==
    /\ call.op = "site_of_incoming"
    /\ triangulation.halfedges[call.e] # EMPTY
    /\ call.result = triangulation.triangles[triangulation.halfedges[call.e]]

\* C10: for two triangles a and b of a valid triangulation, the results for
\* (a, b) and for (b, a) are both EMPTY or are each other's twins.
C10_SwapGivesTwin ==
    IsDelaunayCall /\ InRange(call.a) /\ InRange(call.b)
    => LET r == call.result
           s == delaunay_edge_from_voronoi_edge(
                    triangulation, call.b, call.a, call.overflow_checks)
       IN  /\ r.value = EMPTY <=> s.value = EMPTY
           /\ r.value # EMPTY => triangulation.halfedges[r.value] = s.value

\* two adjacent triangles: the result for (a, b) is a half-edge
C10_Witness ==
    /\ IsDelaunayCall /\ InRange(call.a) /\ InRange(call.b)
    /\ call.a # call.b
    /\ call.result.value # EMPTY
    /\ triangle_of_edge(triangulation.halfedges[call.result.value]) = call.b

(***************************************************************************)
(* Properties of has_common_voronoi_edge.                                  *)
(***************************************************************************)
IsAdjacencyCall == call.op = "has_common_voronoi_edge"

TrianglesOf(v, site) ==
    {v.cells[site].triangles[i] : i \in 1..Len(v.cells[site].triangles)}

\* C2: for two sites a and b of the diagram the answers for (a, b) and for
\* (b, a) are the same.
C2_Symmetric ==
    IsAdjacencyCall /\ HasCell(voronoi, call.a) /\ HasCell(voronoi, call.b)
    => /\ ~call.result.panic
       /\ call.result = has_common_voronoi_edge(voronoi, call.b, call.a)

\* two cells with lists of different lengths in different orders, adjacent
C2_Witness ==
    /\ IsAdjacencyCall /\ HasCell(voronoi, call.a) /\ HasCell(voronoi, call.b)
    /\ call.a # call.b
    /\ Len(voronoi.cells[call.a].triangles) = 2
    /\ Len(voronoi.cells[call.b].triangles) = 3
    /\ voronoi.cells[call.a].triangles[1] = voronoi.cells[call.b].triangles[3]
    /\ call.result.value

\* C3: the answer is true exactly when at least two triangle indices are in
\* both cells' lists.
C3_TwoSharedTriangles ==
    IsAdjacencyCall /\ HasCell(voronoi, call.a) /\ HasCell(voronoi, call.b)
    => /\ ~call.result.panic
       /\ call.result.value <=>
             Cardinality(TrianglesOf(voronoi, call.a)
                         \cap TrianglesOf(voronoi, call.b)) >= 2

\* two cells with exactly one triangle in common: not adjacent
C3_Witness ==
    /\ IsAdjacencyCall /\ HasCell(voronoi, call.a) /\ HasCell(voronoi, call.b)
    /\ call.a # call.b
    /\ Cardinality(TrianglesOf(voronoi, call.a)
                   \cap TrianglesOf(voronoi, call.b)) = 1
    /\ ~call.result.value

\* C6: for a site index that is not a site of the diagram the answer is
\* false, without a failure.
C6_OutOfRangeIsFalse ==
    IsAdjacencyCall /\ (~HasCell(voronoi, call.a) \/ ~HasCell(voronoi, call.b))
    => /\ ~call.result.panic
       /\ ~call.result.value

(***************************************************************************)
(* Properties of the geometric kernel.                                     *)
(***************************************************************************)
Collinear(a, b, c) ==
    (b.x - a.x) * (c.y - a.y) - (b.y - a.y) * (c.x - a.x) = 0

\* the squared distance of p from the point (x, y) of two finite values
\* over the common denominator den, times den * den
Dist2Scaled(p, x, y) ==
    (p.x * x.den - x.num) * (p.x * x.den - x.num)
    + (p.y * y.den - y.num) * (p.y * y.den - y.num)

\* C7: for three collinear points cicumcenter returns a point of two
\* finite coordinates: no infinity and no NaN comes out of the division.
C7_CollinearIsFinite ==
    call.op = "cicumcenter" /\ Collinear(call.a, call.b, call.c)
    => /\ call.result.x.class = "finite"
       /\ call.result.y.class = "finite"

\* for three points that are not collinear the result is finite and at
\* the same distance from the three
K_CircumcenterIsEquidistant ==
    call.op = "cicumcenter" /\ ~Collinear(call.a, call.b, call.c)
    => LET x == call.result.x
           y == call.result.y
       IN  /\ x.class = "finite" /\ y.class = "finite"
           /\ x.den = y.den
           /\ Dist2Scaled(call.a, x, y) = Dist2Scaled(call.b, x, y)
           /\ Dist2Scaled(call.a, x, y) = Dist2Scaled(call.c, x, y)

(***************************************************************************)
(* Properties of validate_voronoi.                                         *)
(***************************************************************************)
Abs(n) == IF n < 0 THEN -n ELSE n

RECURSIVE ShoelaceSum(_, _)
ShoelaceSum(vertices, i) ==
    IF i = 0 THEN 0
    ELSE ShoelaceSum(vertices, i - 1)
         + EdgeFrom(vertices, i).x * EdgeTo(vertices, i).y
         - EdgeTo(vertices, i).x * EdgeFrom(vertices, i).y

\* twice the area of the triangles that p spans with the edges
RECURSIVE FanSum(_, _, _)
FanSum(vertices, p, i) ==
    IF i = 0 THEN 0
    ELSE FanSum(vertices, p, i - 1)
         + Abs((EdgeFrom(vertices, i).x - p.x) * (EdgeTo(vertices, i).y - p.y)
               - (EdgeFrom(vertices, i).y - p.y) * (EdgeTo(vertices, i).x - p.x))

\* p is in the convex polygon or on its boundary: the triangles p spans
\* with the edges add up to the polygon
InClosedPolygon(vertices, p) ==
    FanSum(vertices, p, Len(vertices)) = Abs(ShoelaceSum(vertices, Len(vertices)))

OnEdgeLine(vertices, p) ==
    \E i \in 1..Len(vertices) :
        (EdgeFrom(vertices, i).x - p.x) * (EdgeTo(vertices, i).y - p.y)
        = (EdgeFrom(vertices, i).y - p.y) * (EdgeTo(vertices, i).x - p.x)

StrictlyInside(vertices, p) ==
    InClosedPolygon(vertices, p) /\ ~OnEdgeLine(vertices, p)

IsValidateCall == call.op = "validate_voronoi"

====
